---- MODULE Spec2Model ----
(***************************************************************************)
(* Model of the guide parser and the guide cache of bot.py.                *)
(*                                                                         *)
(* Python strings are sequences of one-character strings, a dict is a      *)
(* function whose DOMAIN is its key set, a list is a sequence.             *)
(***************************************************************************)
EXTENDS Integers, Sequences, FiniteSets, TLC

VARIABLES
    \* ---- parse_guide (one call) ----
    wikitext,        \* the argument of parse_guide
    rest,            \* lines of wikitext.splitlines() the for loop has not read yet
    result,          \* phase -> class -> category -> [items]
    phase,           \* cursor: current phase heading, or None
    terraria_class,  \* cursor: current class heading, or None
    category,        \* cursor: current category, or None
    pc,              \* "loop", "returned" or "KeyError" (an indexing of a missing key)
    \* ---- get_guide_data (module globals and one coroutine per caller) ----
    GuideCache,      \* global GuideCache
    GuideFetchedAt,  \* global GuideFetchedAt (NoneT when None)
    loop_time,       \* asyncio event loop clock
    co,              \* co[c]: state of caller c's get_guide_data coroutine
    calls,           \* history: number of get_guide_data calls made so far
    writer           \* history: which call last assigned GuideCache / GuideFetchedAt

vars == <<wikitext, rest, result, phase, terraria_class, category, pc,
          GuideCache, GuideFetchedAt, loop_time, co, calls, writer>>

parseVars == <<wikitext, rest, result, phase, terraria_class, category, pc>>
cacheVars == <<GuideCache, GuideFetchedAt, loop_time, co, calls, writer>>

----------------------------------------------------------------------------
(* Python values *)

\* None for string-valued variables; no string equals it, since every
\* element of a string is a one-character string.
None == <<"None">>

\* None for GuideFetchedAt; clock readings are positive.
NoneT == -1

EmptyDict == <<>>

\* bool(x) for a str | None
Truthy(x) == x # None /\ x # <<>>

\* d[k] = v in the place of d.setdefault(k, v)
SetDefaultOverwrites(d, k, v) ==
    [x \in DOMAIN d \cup {k} |-> IF x = k THEN v ELSE d[x]]

\* d.setdefault(k, v), as the resulting dict
SetDefault(d, k, v) == IF k \in DOMAIN d THEN d ELSE d @@ (k :> v)

----------------------------------------------------------------------------
(* str methods *)

Whitespace == {" ", "\t", "\n"}

RECURSIVE LStripChars(_, _)
LStripChars(s, chars) ==
    IF s # <<>> /\ Head(s) \in chars THEN LStripChars(Tail(s), chars) ELSE s

RECURSIVE RStripChars(_, _)
RStripChars(s, chars) ==
    IF s # <<>> /\ s[Len(s)] \in chars
    THEN RStripChars(SubSeq(s, 1, Len(s) - 1), chars)
    ELSE s

\* s.strip(chars)
StripChars(s, chars) == RStripChars(LStripChars(s, chars), chars)

\* s.strip()
Strip(s) == StripChars(s, Whitespace)

\* s.startswith(p)
StartsWith(s, p) == Len(s) >= Len(p) /\ SubSeq(s, 1, Len(p)) = p

Nbsp == <<"&", "n", "b", "s", "p", ";">>

\* s.replace("&nbsp;", " ")
RECURSIVE ReplaceNbsp(_)
ReplaceNbsp(s) ==
    IF s = <<>> THEN <<>>
    ELSE IF StartsWith(s, Nbsp)
         THEN <<" ">> \o ReplaceNbsp(SubSeq(s, Len(Nbsp) + 1, Len(s)))
         ELSE <<Head(s)>> \o ReplaceNbsp(Tail(s))

\* s.splitlines(), for texts whose only line boundary is "\n"
RECURSIVE SplitFrom(_, _)
SplitFrom(s, cur) ==
    IF s = <<>> THEN (IF cur = <<>> THEN <<>> ELSE <<cur>>)
    ELSE IF Head(s) = "\n" THEN <<cur>> \o SplitFrom(Tail(s), <<>>)
         ELSE SplitFrom(Tail(s), Append(cur, Head(s)))

splitlines(s) == SplitFrom(s, <<>>)

\* length of the longest prefix of s, from position p, made of characters
\* outside `stop'
RECURSIVE RunLen(_, _, _)
RunLen(s, p, stop) ==
    IF p <= Len(s) /\ s[p] \notin stop THEN 1 + RunLen(s, p + 1, stop) ELSE 0

RECURSIVE SpaceLen(_, _)
SpaceLen(s, p) ==
    IF p <= Len(s) /\ s[p] \in Whitespace THEN 1 + SpaceLen(s, p + 1) ELSE 0

----------------------------------------------------------------------------
(* _extract_item_name *)

\* ITEM_TEMPLATE_RE matched at position p: \{\{ \s* [iI] tem \| ([^|}]+)
\* The result is group(1), or None when the pattern does not match at p.
ItemTemplateAt(s, p) ==
    IF p + 1 <= Len(s) /\ s[p] = "{" /\ s[p + 1] = "{"
    THEN LET q == p + 2 + SpaceLen(s, p + 2)
             n == RunLen(s, q + 5, {"|", "}"})
         IN  IF /\ q + 4 <= Len(s)
                /\ s[q] \in {"i", "I"}
                /\ SubSeq(s, q + 1, q + 4) = <<"t", "e", "m", "|">>
                /\ n >= 1
             THEN SubSeq(s, q + 5, q + 4 + n)
             ELSE None
    ELSE None

\* WIKI_LINK_RE matched at position p: \[\[ ([^|\]]+) [^\]]* \]\]
WikiLinkAt(s, p) ==
    IF p + 1 <= Len(s) /\ s[p] = "[" /\ s[p + 1] = "["
    THEN LET n == RunLen(s, p + 2, {"|", "]"})
             e == p + 2 + RunLen(s, p + 2, {"]"})
         IN  IF n >= 1 /\ e + 1 <= Len(s) /\ s[e] = "]" /\ s[e + 1] = "]"
             THEN SubSeq(s, p + 2, p + 1 + n)
             ELSE None
    ELSE None

\* RE.search(line): group(1) of the leftmost match, or None
RECURSIVE ItemTemplateSearch(_, _)
ItemTemplateSearch(s, p) ==
    IF p > Len(s) THEN None
    ELSE IF ItemTemplateAt(s, p) # None THEN ItemTemplateAt(s, p)
         ELSE ItemTemplateSearch(s, p + 1)

RECURSIVE WikiLinkSearch(_, _)
WikiLinkSearch(s, p) ==
    IF p > Len(s) THEN None
    ELSE IF WikiLinkAt(s, p) # None THEN WikiLinkAt(s, p)
         ELSE WikiLinkSearch(s, p + 1)

\* _extract_item_name trying WIKI_LINK_RE before ITEM_TEMPLATE_RE
extract_item_name_LinkFirst(line) ==
    IF WikiLinkSearch(line, 1) # None
    THEN Strip(WikiLinkSearch(line, 1))
    ELSE IF ItemTemplateSearch(line, 1) # None
         THEN Strip(ItemTemplateSearch(line, 1))
         ELSE None

extract_item_name(line) ==
    IF ItemTemplateSearch(line, 1) # None
    THEN Strip(ItemTemplateSearch(line, 1))
    ELSE IF WikiLinkSearch(line, 1) # None
         THEN Strip(WikiLinkSearch(line, 1))
         ELSE None

----------------------------------------------------------------------------
(* parse_guide *)

\* The loop's variables as one value; err is set when the body indexes a
\* dict with a key it does not hold (Python raises KeyError there).
ParseStart ==
    [result |-> EmptyDict, phase |-> None, terraria_class |-> None,
     category |-> None, err |-> FALSE]

\* IsPhaseHeading without the `not line.startswith("===")` test
IsPhaseHeadingPrefixOnly(line) == StartsWith(line, <<"=", "=">>)

IsPhaseHeading(line) ==
    StartsWith(line, <<"=", "=">>) /\ ~StartsWith(line, <<"=", "=", "=">>)

IsClassHeading(line) == StartsWith(line, <<"=", "=", "=">>)

IsCategory(line) == StartsWith(line, <<";">>)

IsBullet(line) == StartsWith(line, <<"*">>)

HeadingText(line) == StripChars(line, {"=", " "})

\* if line.startswith("==") and not line.startswith("==="):
PhaseBranch(s, line) ==
    LET ph == Strip(ReplaceNbsp(HeadingText(line)))
    IN  [s EXCEPT !.phase = ph,
                  !.result = SetDefault(@, ph, EmptyDict),
                  !.terraria_class = None,
                  !.category = None]

\* ClassBranch without the `if phase:` test
ClassBranchUnguarded(s, line) ==
    LET cls == Strip(HeadingText(line))
    IN  IF s.phase \in DOMAIN s.result
        THEN [s EXCEPT !.terraria_class = cls,
                       !.result[s.phase] = SetDefault(@, cls, EmptyDict),
                       !.category = None]
        ELSE [s EXCEPT !.terraria_class = cls, !.err = TRUE]

\* ClassBranch registering through result.setdefault(phase, {}) instead of
\* testing phase
ClassBranchRegistersOrphan(s, line) ==
    LET cls == Strip(HeadingText(line))
        r == SetDefault(s.result, s.phase, EmptyDict)
    IN  [s EXCEPT !.terraria_class = cls,
                  !.result = [r EXCEPT ![s.phase] = SetDefault(@, cls, EmptyDict)],
                  !.category = None]

\* ClassBranch without `category = None`
ClassBranchKeepsCategory(s, line) ==
    LET cls == Strip(HeadingText(line))
    IN  IF Truthy(s.phase)
        THEN IF s.phase \in DOMAIN s.result
             THEN [s EXCEPT !.terraria_class = cls,
                            !.result[s.phase] = SetDefault(@, cls, EmptyDict)]
             ELSE [s EXCEPT !.terraria_class = cls, !.err = TRUE]
        ELSE [s EXCEPT !.terraria_class = cls]

\* if line.startswith("==="):
ClassBranch(s, line) ==
    LET cls == Strip(HeadingText(line))
    IN  IF Truthy(s.phase)
        THEN IF s.phase \in DOMAIN s.result
             THEN [s EXCEPT !.terraria_class = cls,
                            !.result[s.phase] = SetDefault(@, cls, EmptyDict),
                            !.category = None]
             ELSE [s EXCEPT !.terraria_class = cls, !.err = TRUE]
        ELSE [s EXCEPT !.terraria_class = cls, !.category = None]

\* if line.startswith(";"):
CategoryBranch(s, line) ==
    LET cat == Strip(LStripChars(line, {";"}))
    IN  IF Truthy(s.phase) /\ Truthy(s.terraria_class)
        THEN IF /\ s.phase \in DOMAIN s.result
                /\ s.terraria_class \in DOMAIN s.result[s.phase]
             THEN [s EXCEPT !.category = cat,
                            !.result[s.phase][s.terraria_class] =
                                SetDefault(@, cat, <<>>)]
             ELSE [s EXCEPT !.category = cat, !.err = TRUE]
        ELSE [s EXCEPT !.category = cat]

\* the guard of the bullet branch
BulletActive(s, line) ==
    /\ IsBullet(line)
    /\ Truthy(s.phase) /\ Truthy(s.terraria_class) /\ Truthy(s.category)

\* BulletBranch recording a name once per category (set, not append)
BulletBranchDedups(s, line) ==
    LET name == extract_item_name(line)
    IN  IF Truthy(name)
        THEN IF /\ s.phase \in DOMAIN s.result
                /\ s.terraria_class \in DOMAIN s.result[s.phase]
                /\ s.category \in DOMAIN s.result[s.phase][s.terraria_class]
             THEN [s EXCEPT !.result[s.phase][s.terraria_class][s.category] =
                                IF \E i \in 1..Len(@) : @[i] = name
                                THEN @ ELSE Append(@, name)]
             ELSE [s EXCEPT !.err = TRUE]
        ELSE s

\* BulletBranch with `if name is not None:` in the place of `if name:`
BulletBranchKeepsBlank(s, line) ==
    LET name == extract_item_name(line)
    IN  IF name # None
        THEN IF /\ s.phase \in DOMAIN s.result
                /\ s.terraria_class \in DOMAIN s.result[s.phase]
                /\ s.category \in DOMAIN s.result[s.phase][s.terraria_class]
             THEN [s EXCEPT !.result[s.phase][s.terraria_class][s.category] =
                                Append(@, name)]
             ELSE [s EXCEPT !.err = TRUE]
        ELSE s

\* if line.startswith("*") and phase and terraria_class and category:
BulletBranch(s, line) ==
    LET name == extract_item_name(line)
    IN  IF Truthy(name)
        THEN IF /\ s.phase \in DOMAIN s.result
                /\ s.terraria_class \in DOMAIN s.result[s.phase]
                /\ s.category \in DOMAIN s.result[s.phase][s.terraria_class]
             THEN [s EXCEPT !.result[s.phase][s.terraria_class][s.category] =
                                Append(@, name)]
             ELSE [s EXCEPT !.err = TRUE]
        ELSE s

\* one iteration of the for loop on raw_line
LineStep(s, raw_line) ==
    LET line == Strip(raw_line)
    IN  IF IsPhaseHeading(line) THEN PhaseBranch(s, line)
        ELSE IF IsClassHeading(line) THEN ClassBranch(s, line)
        ELSE IF IsCategory(line) THEN CategoryBranch(s, line)
        ELSE IF BulletActive(s, line) THEN BulletBranch(s, line)
        ELSE s

\* the for loop over the lines ls, from loop state s; stops at a KeyError
RECURSIVE ParseLoop(_, _)
ParseLoop(s, ls) ==
    IF ls = <<>> \/ s.err THEN s ELSE ParseLoop(LineStep(s, Head(ls)), Tail(ls))

\* parse_guide(text), as the final loop state: .result is the returned
\* dict, .err tells that the call raised instead
parse_guide(text) == ParseLoop(ParseStart, splitlines(text))

----------------------------------------------------------------------------
(* Inputs of parse_guide *)

\* number of lines of the texts parsed
MaxLines == 4

\* == A&nbsp;==
LnPhase ==
    <<"=", "=", " ", "A", "&", "n", "b", "s", "p", ";", "=", "=">>

\* ==
LnPhaseEmpty ==
    <<"=", "=">>

\*  === R ===
LnClass ==
    <<" ", "=", "=", "=", " ", "R", " ", "=", "=", "=">>

\* ===
LnClassEmpty ==
    <<"=", "=", "=">>

\* ; W
LnCategory ==
    <<";", " ", "W">>

\* ;
LnCategoryEmpty ==
    <<";">>

\* * {{item|S}}
LnItem ==
    <<"*", " ", "{", "{", "i", "t", "e", "m", "|", "S", "}", "}">>

\* *[[B|b]]
LnLink ==
    <<"*", "[", "[", "B", "|", "b", "]", "]">>

\* *[[B]]{{ Item|S |x}}
LnBoth ==
    <<"*", "[", "[", "B", "]", "]", "{", "{", " ", "I", "t", "e", "m", "|", "S", " ", "|", "x", "}", "}">>

\* *{{item| }}
LnBlankName ==
    <<"*", "{", "{", "i", "t", "e", "m", "|", " ", "}", "}">>

\* * x
LnNoName ==
    <<"*", " ", "x">>

\* x
LnOther ==
    <<"x">>

\* the lines the texts of SpecParse are made of
LineSet ==
    {LnPhase, LnPhaseEmpty, LnClass, LnClassEmpty,
     LnCategory, LnCategoryEmpty, LnItem, LnLink,
     LnNoName, LnOther}

\* "\n".join(ls)
RECURSIVE JoinLines(_)
JoinLines(ls) ==
    IF ls = <<>> THEN <<>>
    ELSE IF Len(ls) = 1 THEN Head(ls)
         ELSE Head(ls) \o <<"\n">> \o JoinLines(Tail(ls))

Texts == {JoinLines(ls) : ls \in UNION {[1..n -> LineSet] : n \in 0..MaxLines}}

----------------------------------------------------------------------------
(* get_guide_data: configuration, callers and inputs *)

CACHE_TTL == 60 * 60

\* concurrent callers of get_guide_data (slash command handlers)
NumCallers == 2

Callers == 1..NumCallers

\* calls of get_guide_data made in all
MaxCalls == 3

\* the clock stops advancing here
MaxTime == 3602

\* the clock advances between steps of the coroutines by one of these
Deltas == {CACHE_TTL - 1, CACHE_TTL, CACHE_TTL + 1}

\* wikitexts the wiki can serve: no heading at all, one phase, a full entry
Docs ==
    {<<>>,
     JoinLines(<<LnPhase>>),
     JoinLines(<<LnPhase, LnClass, LnCategory, LnItem>>)}

\* no coroutine of the caller is running
IdleCo ==
    [pc |-> "idle", now |-> 0, text |-> <<>>, ret |-> EmptyDict, call |-> 0]

\* calls are numbered from 1 in the order they begin, for the history
\* variables; NoCall stands for the module's own initial assignments
NoCall == 0

\* bullet lines after the category marker, in the texts of SpecAppend
MaxBullets == 3

\* * {{item|S}} [[B]]
LnBothItemFirst ==
    <<"*", " ", "{", "{", "i", "t", "e", "m", "|", "S", "}", "}", " ", "[", "[", "B", "]", "]">>

\* *[[ ]]
LnBlankLink ==
    <<"*", "[", "[", " ", "]", "]">>

\* lines that follow the heading, class and category lines in those texts
AppendLineSet ==
    {LnItem, LnLink, LnBoth, LnBothItemFirst, LnBlankName, LnBlankLink,
     LnNoName, LnOther}

AppendHeader == <<LnPhase, LnClass, LnCategory>>

\* == Phase A == / === Ranged === / ;Weapons / * {{item|Sword}} / * [[Bow]]
ExampleText ==
    <<"=", "=", " ", "P", "h", "a", "s", "e", " ", "A", " ", "=", "=",
      "\n", "=", "=", "=", " ", "R", "a", "n", "g", "e", "d", " ", "=",
      "=", "=", "\n", ";", "W", "e", "a", "p", "o", "n", "s", "\n", "*",
      " ", "{", "{", "i", "t", "e", "m", "|", "S", "w", "o", "r", "d", "}",
      "}", "\n", "*", " ", "[", "[", "B", "o", "w", "]", "]">>

AppendTexts ==
    {JoinLines(AppendHeader \o ls) :
        ls \in UNION {[1..n -> AppendLineSet] : n \in 0..MaxBullets}}
    \cup {ExampleText}

\* lines of the texts of SpecSections after their three header lines
MaxTail == 4

\* a phase heading between whitespace: <tab> == B ==<space><space>
HdPhaseWs ==
    <<"\t", " ", "=", "=", " ", "B", " ", "=", "=", " ", " ">>

\* a class heading between whitespace: <space><space>===Q===<space><tab>
HdClassWs ==
    <<" ", " ", "=", "=", "=", "Q", "=", "=", "=", " ", "\t">>

\* ==== R
HdFour ==
    <<"=", "=", "=", "=", " ", "R">>

\* = A =
HdOne ==
    <<"=", " ", "A", " ", "=">>

\* the lines that follow the heading, class and category lines in the texts
\* of SpecSections
SectionLineSet ==
    {LnPhase, HdPhaseWs, LnClass, HdClassWs,
     HdFour, HdOne, LnCategory, LnItem}

SectionTexts ==
    {JoinLines(AppendHeader \o ls) :
        ls \in UNION {[1..n -> SectionLineSet] : n \in 0..MaxTail}}

----------------------------------------------------------------------------
(* parse_guide as a loop: one action per branch of the loop body *)

\* the loop's variables
Cur ==
    [result |-> result, phase |-> phase, terraria_class |-> terraria_class,
     category |-> category, err |-> FALSE]

\* the module globals as the import of bot.py leaves them; no coroutine yet
InitCacheVars ==
    /\ GuideCache = EmptyDict
    /\ GuideFetchedAt = NoneT
    /\ loop_time = 1
    /\ co = [c \in Callers |-> IdleCo]
    /\ calls = 0
    /\ writer = [cache |-> NoCall, stamp |-> NoCall]

ParseEntry(texts) ==
    /\ wikitext \in texts
    /\ rest = splitlines(wikitext)
    /\ result = ParseStart.result
    /\ phase = ParseStart.phase
    /\ terraria_class = ParseStart.terraria_class
    /\ category = ParseStart.category
    /\ pc = "loop"

InitParse == ParseEntry(Texts) /\ InitCacheVars

\* the loop variables after a branch; a KeyError leaves the function
Assign(s) ==
    /\ result' = s.result
    /\ phase' = s.phase
    /\ terraria_class' = s.terraria_class
    /\ category' = s.category
    /\ pc' = IF s.err THEN "KeyError" ELSE "loop"
    /\ rest' = Tail(rest)
    /\ UNCHANGED <<wikitext, cacheVars>>

\* the next raw_line, stripped
NextLine == Strip(Head(rest))

Looping == pc = "loop" /\ rest # <<>>

PhaseHeading ==
    /\ Looping
    /\ IsPhaseHeading(NextLine)
    /\ Assign(PhaseBranch(Cur, NextLine))

ClassHeading ==
    /\ Looping
    /\ ~IsPhaseHeading(NextLine)
    /\ IsClassHeading(NextLine)
    /\ Assign(ClassBranch(Cur, NextLine))

CategoryHeading ==
    /\ Looping
    /\ ~IsPhaseHeading(NextLine) /\ ~IsClassHeading(NextLine)
    /\ IsCategory(NextLine)
    /\ Assign(CategoryBranch(Cur, NextLine))

BulletLine ==
    /\ Looping
    /\ ~IsPhaseHeading(NextLine) /\ ~IsClassHeading(NextLine)
    /\ ~IsCategory(NextLine)
    /\ BulletActive(Cur, NextLine)
    /\ Assign(BulletBranch(Cur, NextLine))

OtherLine ==
    /\ Looping
    /\ ~IsPhaseHeading(NextLine) /\ ~IsClassHeading(NextLine)
    /\ ~IsCategory(NextLine)
    /\ ~BulletActive(Cur, NextLine)
    /\ Assign(Cur)

\* return result
ParseReturn ==
    /\ pc = "loop"
    /\ rest = <<>>
    /\ pc' = "returned"
    /\ UNCHANGED <<wikitext, rest, result, phase, terraria_class, category,
                   cacheVars>>

NextParse ==
    \/ PhaseHeading
    \/ ClassHeading
    \/ CategoryHeading
    \/ BulletLine
    \/ OtherLine
    \/ ParseReturn

SpecParse == InitParse /\ [][NextParse]_vars

\* parse_guide on one heading, one class, one category and lines under them
InitAppend == ParseEntry(AppendTexts) /\ InitCacheVars

SpecAppend == InitAppend /\ [][NextParse]_vars

\* parse_guide on one heading, one class, one category and then further
\* headings, categories and items
InitSections == ParseEntry(SectionTexts) /\ InitCacheVars

SpecSections == InitSections /\ [][NextParse]_vars

----------------------------------------------------------------------------
(* get_guide_data: one action per stretch of code between suspension points *)

\* the parser side at rest, as the cache specification holds it
ParseAtRest ==
    /\ wikitext = <<>>
    /\ rest = <<>>
    /\ result = EmptyDict
    /\ phase = None
    /\ terraria_class = None
    /\ category = None
    /\ pc = "returned"

Init == InitCacheVars /\ ParseAtRest

\* if GuideCache and GuideFetchedAt and now - GuideFetchedAt < CACHE_TTL:
CacheHit(now) ==
    /\ DOMAIN GuideCache # {}
    /\ GuideFetchedAt # NoneT /\ GuideFetchedAt # 0
    /\ now - GuideFetchedAt < CACHE_TTL

\* Call with a single-flight rule the code does not have: while another
\* refresh is suspended at its fetch, serve what is stored
CallJoinsInFlight(c) ==
    /\ co[c].pc = "idle"
    /\ calls < MaxCalls
    /\ calls' = calls + 1
    /\ co' = [co EXCEPT ![c] =
                IF \/ CacheHit(loop_time)
                   \/ \E d \in Callers \ {c} : co[d].pc = "awaiting"
                THEN [@ EXCEPT !.pc = "returned", !.now = loop_time,
                               !.ret = GuideCache, !.call = calls + 1]
                ELSE [@ EXCEPT !.pc = "awaiting", !.now = loop_time,
                               !.call = calls + 1]]
    /\ UNCHANGED <<GuideCache, GuideFetchedAt, loop_time, writer, parseVars>>

\* Call with GuideFetchedAt = now moved before the await
CallStampsEarly(c) ==
    /\ co[c].pc = "idle"
    /\ calls < MaxCalls
    /\ calls' = calls + 1
    /\ IF CacheHit(loop_time)
       THEN /\ co' = [co EXCEPT ![c] =
                        [@ EXCEPT !.pc = "returned", !.now = loop_time,
                                  !.ret = GuideCache, !.call = calls + 1]]
            /\ UNCHANGED <<GuideFetchedAt, writer>>
       ELSE /\ co' = [co EXCEPT ![c] =
                        [@ EXCEPT !.pc = "awaiting", !.now = loop_time,
                                  !.call = calls + 1]]
            /\ GuideFetchedAt' = loop_time
            /\ writer' = [writer EXCEPT !.stamp = calls + 1]
    /\ UNCHANGED <<GuideCache, loop_time, parseVars>>

\* Call with the timestamp renewed when the cache is served (sliding expiry)
CallTouchesOnHit(c) ==
    /\ co[c].pc = "idle"
    /\ calls < MaxCalls
    /\ calls' = calls + 1
    /\ IF CacheHit(loop_time)
       THEN /\ co' = [co EXCEPT ![c] =
                        [@ EXCEPT !.pc = "returned", !.now = loop_time,
                                  !.ret = GuideCache, !.call = calls + 1]]
            /\ GuideFetchedAt' = loop_time
            /\ writer' = [writer EXCEPT !.stamp = calls + 1]
       ELSE /\ co' = [co EXCEPT ![c] =
                        [@ EXCEPT !.pc = "awaiting", !.now = loop_time,
                                  !.call = calls + 1]]
            /\ UNCHANGED <<GuideFetchedAt, writer>>
    /\ UNCHANGED <<GuideCache, loop_time, parseVars>>

\* lines 149-154: read the clock, return the cache or start the fetch and
\* suspend at the await
Call(c) ==
    /\ co[c].pc = "idle"
    /\ calls < MaxCalls
    /\ calls' = calls + 1
    /\ co' = [co EXCEPT ![c] =
                IF CacheHit(loop_time)
                THEN [@ EXCEPT !.pc = "returned", !.now = loop_time,
                               !.ret = GuideCache, !.call = calls + 1]
                ELSE [@ EXCEPT !.pc = "awaiting", !.now = loop_time,
                               !.call = calls + 1]]
    /\ UNCHANGED <<GuideCache, GuideFetchedAt, loop_time, writer, parseVars>>

\* fetch_wikitext completes with the page's wikitext
FetchSucceeds(c, text) ==
    /\ co[c].pc = "awaiting"
    /\ co' = [co EXCEPT ![c].pc = "fetched", ![c].text = text]
    /\ UNCHANGED <<GuideCache, GuideFetchedAt, loop_time, calls, writer,
                   parseVars>>

\* fetch_wikitext raises (transport error, bad JSON, missing key)
FetchFails(c) ==
    /\ co[c].pc = "awaiting"
    /\ co' = [co EXCEPT ![c].pc = "failed"]
    /\ UNCHANGED <<GuideCache, GuideFetchedAt, loop_time, calls, writer,
                   parseVars>>

\* lines 156-158, run without suspension once the await returns
StoreAndReturn(c) ==
    /\ co[c].pc = "fetched"
    /\ LET p == parse_guide(co[c].text)
       IN  IF p.err
           THEN /\ co' = [co EXCEPT ![c].pc = "raised"]
                /\ UNCHANGED <<GuideCache, GuideFetchedAt, writer>>
           ELSE /\ GuideCache' = p.result
                /\ GuideFetchedAt' = co[c].now
                /\ writer' = [cache |-> co[c].call, stamp |-> co[c].call]
                /\ co' = [co EXCEPT ![c].pc = "returned", ![c].ret = p.result]
    /\ UNCHANGED <<loop_time, calls, parseVars>>

\* Propagate with the cache invalidated on the way out
PropagateClearsCache(c) ==
    /\ co[c].pc = "failed"
    /\ co' = [co EXCEPT ![c].pc = "raised"]
    /\ GuideCache' = EmptyDict
    /\ GuideFetchedAt' = NoneT
    /\ writer' = [cache |-> NoCall, stamp |-> NoCall]
    /\ UNCHANGED <<loop_time, calls, parseVars>>

\* Propagate with the exception caught and the stored dict returned
PropagateReturnsCache(c) ==
    /\ co[c].pc = "failed"
    /\ co' = [co EXCEPT ![c].pc = "returned", ![c].ret = GuideCache]
    /\ UNCHANGED <<GuideCache, GuideFetchedAt, loop_time, calls, writer,
                   parseVars>>

\* Propagate with the failure recorded as a refresh time (no retry for
\* CACHE_TTL)
PropagateStampsFailure(c) ==
    /\ co[c].pc = "failed"
    /\ co' = [co EXCEPT ![c].pc = "raised"]
    /\ GuideFetchedAt' = co[c].now
    /\ writer' = [writer EXCEPT !.stamp = co[c].call]
    /\ UNCHANGED <<GuideCache, loop_time, calls, parseVars>>

\* the exception of the await leaves get_guide_data: nothing catches it
Propagate(c) ==
    /\ co[c].pc = "failed"
    /\ co' = [co EXCEPT ![c].pc = "raised"]
    /\ UNCHANGED <<GuideCache, GuideFetchedAt, loop_time, calls, writer,
                   parseVars>>

\* the caller has its value or its exception; it may call again
Collect(c) ==
    /\ co[c].pc \in {"returned", "raised"}
    /\ co' = [co EXCEPT ![c] = IdleCo]
    /\ UNCHANGED <<GuideCache, GuideFetchedAt, loop_time, calls, writer,
                   parseVars>>

\* time passes
Tick(d) ==
    /\ loop_time + d <= MaxTime
    /\ loop_time' = loop_time + d
    /\ UNCHANGED <<GuideCache, GuideFetchedAt, co, calls, writer,
                   parseVars>>

Next ==
    \/ \E c \in Callers : Call(c)
    \/ \E c \in Callers, text \in Docs : FetchSucceeds(c, text)
    \/ \E c \in Callers : FetchFails(c)
    \/ \E c \in Callers : StoreAndReturn(c)
    \/ \E c \in Callers : Propagate(c)
    \/ \E c \in Callers : Collect(c)
    \/ \E d \in Deltas : Tick(d)

Spec == Init /\ [][Next]_vars

----------------------------------------------------------------------------
(* Properties of get_guide_data, checked under Spec *)

\* no successful refresh has happened yet
Empty == GuideFetchedAt = NoneT /\ GuideCache = EmptyDict

\* a refresh has stored an entry
Populated == GuideFetchedAt # NoneT

\* caller c's call began with the stored entry at least CACHE_TTL old
StaleFor(c) == Populated /\ co[c].now - GuideFetchedAt >= CACHE_TTL

\* this step is the first of a call of c
Begins(c) == co[c].pc = "idle" /\ co'[c].pc # "idle"

\* this step is c's coroutine resuming after its fetch failed
ResumesFailed(c) == co[c].pc = "failed" /\ co'[c] # co[c]

\* some refresh other than c's is suspended at its fetch
InFlightBeside(c) == \E d \in Callers \ {c} : co[d].pc = "awaiting"

\* C1 as stated: a call that finds a stale entry and whose fetch fails
\* returns the stored Index, the entry unchanged; a call fails only while
\* no entry is stored.
C1_StaleFallbackAsStated ==
    [][\A c \in Callers :
         /\ (ResumesFailed(c) /\ StaleFor(c)) =>
               /\ co'[c].pc = "returned"
               /\ co'[c].ret = GuideCache
               /\ UNCHANGED <<GuideCache, GuideFetchedAt>>
         /\ (ResumesFailed(c) /\ co'[c].pc = "raised") => ~Populated]_vars

\* C1, amended: a call whose fetch fails while an entry is stored, as when
\* the call found that entry stale, raises to its caller, and the entry
\* stays stored, Index and timestamp unchanged.
C1_StaleFailurePropagates ==
    [][\A c \in Callers :
         (ResumesFailed(c) /\ Populated) =>
            /\ co'[c].pc = "raised"
            /\ UNCHANGED <<GuideCache, GuideFetchedAt>>]_vars

\* a call has failed on a stale, non-empty entry, which is still stored
C1_Witness ==
    \E c \in Callers :
        /\ co[c].pc = "raised"
        /\ StaleFor(c)
        /\ DOMAIN GuideCache # {}

\* C2 as stated: with t the stored timestamp, a call at now - t < CACHE_TTL
\* returns the stored Index without fetching, and a call at
\* now - t >= CACHE_TTL starts a fetch.
C2_FreshnessBoundaryAsStated ==
    [][\A c \in Callers :
         (Begins(c) /\ Populated) =>
            IF loop_time - GuideFetchedAt < CACHE_TTL
            THEN co'[c].pc = "returned" /\ co'[c].ret = GuideCache
            ELSE co'[c].pc = "awaiting"]_vars

\* C3 as stated: a call that begins while another call's refresh is
\* suspended at its fetch does not start a fetch of its own.
C3_SingleFlightAsStated ==
    [][\A c \in Callers :
         (Begins(c) /\ InFlightBeside(c)) => co'[c].pc # "awaiting"]_vars

\* C3, amended: a call that begins while another call's refresh is suspended
\* at its fetch starts a fetch of its own, unless the stored entry is
\* non-empty and younger than CACHE_TTL, in which case it returns that entry.
C3_DuplicateFetchTolerated ==
    [][\A c \in Callers :
         (Begins(c) /\ InFlightBeside(c)) =>
            IF /\ DOMAIN GuideCache # {}
               /\ Populated
               /\ loop_time - GuideFetchedAt < CACHE_TTL
            THEN co'[c].pc = "returned" /\ co'[c].ret = GuideCache
            ELSE co'[c].pc = "awaiting"]_vars

\* two refreshes are suspended at their fetches at once
C3_Witness ==
    \E c, d \in Callers :
        c # d /\ co[c].pc = "awaiting" /\ co[d].pc = "awaiting"

\* C4: in every state the coroutines can observe, the stored Index and the
\* stored timestamp were assigned by the same call, and there is an Index
\* exactly when there is a timestamp.
C4_ConsistentEntry ==
    /\ writer.cache = writer.stamp
    /\ (writer.cache = NoCall) <=> (GuideFetchedAt = NoneT)
    /\ GuideFetchedAt = NoneT => GuideCache = EmptyDict

\* an entry is stored while another call's refresh has its response and is
\* about to replace it
C4_Witness ==
    \E c \in Callers :
        /\ co[c].pc = "fetched"
        /\ writer.cache # NoCall
        /\ writer.cache # co[c].call

\* C5: a fetch failure in state Empty raises to the caller and leaves the
\* provider Empty, and a call that begins in state Empty starts a fetch.
C5_ColdStartFailure ==
    [][\A c \in Callers :
         /\ (ResumesFailed(c) /\ Empty) => (co'[c].pc = "raised" /\ Empty')
         /\ (Begins(c) /\ Empty) => co'[c].pc = "awaiting"]_vars

\* after a failed cold start, a later call fetches again, still Empty
C5_Witness ==
    \E c, d \in Callers :
        /\ co[c].pc = "raised"
        /\ Empty
        /\ co[d].pc = "awaiting"
        /\ co[d].call > co[c].call

\* C6 as stated: once a refresh has stored an empty Index, a call within
\* CACHE_TTL of its timestamp returns the empty Index without fetching.
C6_EmptyIndexCachedAsStated ==
    [][\A c \in Callers :
         (/\ Begins(c)
          /\ Populated
          /\ GuideCache = EmptyDict
          /\ loop_time - GuideFetchedAt < CACHE_TTL) =>
            co'[c].pc = "returned" /\ co'[c].ret = EmptyDict]_vars

----------------------------------------------------------------------------
(* Properties of parse_guide *)

\* the lines of the text being parsed
Lines == splitlines(wikitext)

\* the lines ls without those at the positions in skip
Without(ls, skip) ==
    LET keep == {i \in 1..Len(ls) : i \notin skip}
        F[n \in 0..Len(ls)] ==
            IF n = 0 THEN <<>>
            ELSE IF n \in keep THEN Append(F[n - 1], ls[n]) ELSE F[n - 1]
    IN  F[Len(ls)]

\* the dict parse_guide builds from the lines ls
ParseOf(ls) == ParseLoop(ParseStart, ls).result

IsHeadingAt(i) ==
    IsPhaseHeading(Strip(Lines[i])) \/ IsClassHeading(Strip(Lines[i]))

\* d is a dict of dicts of dicts of lists of strings
ValidIndex(d) ==
    \A p \in DOMAIN d :
        /\ p # None
        /\ \A c \in DOMAIN d[p] :
              /\ c # None
              /\ \A k \in DOMAIN d[p][c] :
                    /\ k # None
                    /\ DOMAIN d[p][c][k] = 1..Len(d[p][c][k])
                    /\ \A i \in 1..Len(d[p][c][k]) : d[p][c][k][i] # None

\* every indexing the next iteration can make finds its key
CursorRegistered ==
    /\ Truthy(phase) => phase \in DOMAIN result
    /\ (Truthy(phase) /\ Truthy(terraria_class)) =>
          terraria_class \in DOMAIN result[phase]
    /\ (Truthy(phase) /\ Truthy(terraria_class) /\ Truthy(category)) =>
          category \in DOMAIN result[phase][terraria_class]

\* the loop has not raised, its Index is structurally valid and the keys its
\* next indexings use are registered
ParseGood == pc # "KeyError" /\ ValidIndex(result) /\ CursorRegistered

\* C7: on every sequence of lines, before and after every step of
\* parse_guide no missing key has been indexed and the Index is structurally
\* valid; every step consumes a line or returns, so the call returns after
\* as many iterations as the text has lines.
C7_ParserTotal ==
    [][/\ ParseGood
       /\ ParseGood'
       /\ Len(rest') < Len(rest) \/ (rest = <<>> /\ pc' = "returned")]_vars

\* parse_guide has returned an Index with an item in it: all three levels
\* were indexed
C7_Witness ==
    /\ pc = "returned"
    /\ \E p \in DOMAIN result : \E c \in DOMAIN result[p] :
          \E k \in DOMAIN result[p][c] : result[p][c][k] # <<>>

\* line i is a class heading with no phase heading before it
OrphanClassAt(i) ==
    /\ IsClassHeading(Strip(Lines[i]))
    /\ \A j \in 1..(i - 1) : ~IsPhaseHeading(Strip(Lines[j]))

\* line i is a category marker that does not have, before it, a phase
\* heading followed by a class heading with no phase heading in between
OrphanCategoryAt(i) ==
    /\ IsCategory(Strip(Lines[i]))
    /\ ~\E j \in 1..(i - 1), k \in 1..(i - 1) :
          /\ j < k
          /\ IsPhaseHeading(Strip(Lines[j]))
          /\ IsClassHeading(Strip(Lines[k]))
          /\ \A m \in (k + 1)..(i - 1) : ~IsPhaseHeading(Strip(Lines[m]))

\* the bullet lines after line i, up to the next heading or category marker
BulletsAfter(i) ==
    {k \in (i + 1)..Len(Lines) :
        /\ IsBullet(Strip(Lines[k]))
        /\ \A m \in (i + 1)..k :
              ~IsHeadingAt(m) /\ ~IsCategory(Strip(Lines[m]))}

\* C8: the Index returned is the one the text yields without its orphan
\* class heading, and without its orphan category marker and the bullet
\* lines after that marker.
C8_OrphanSuppression ==
    pc = "returned" =>
        \A i \in 1..Len(Lines) :
            /\ OrphanClassAt(i) => result = ParseOf(Without(Lines, {i}))
            /\ OrphanCategoryAt(i) =>
                  result = ParseOf(Without(Lines, {i} \cup BulletsAfter(i)))

\* a text with an orphan class heading, then a phase and a class with a
\* category marker before the class (orphan) has been parsed
C8_Witness ==
    /\ pc = "returned"
    /\ \E i \in 1..Len(Lines) : OrphanClassAt(i) /\ Strip(Lines[i]) # <<"=", "=", "=">>
    /\ \E i \in 1..Len(Lines) :
          OrphanCategoryAt(i) /\ BulletsAfter(i) # {} /\ Lines[i] = LnCategory

\* the name each item line of AppendLineSet refers to
ExpectedName(l) ==
    CASE l = LnItem -> <<"S">>
      [] l = LnLink -> <<"B">>
      [] l = LnBoth -> <<"S">>
      [] l = LnBothItemFirst -> <<"S">>

\* the bullet lines that refer to an item, among the lines that follow the
\* three header lines
BulletLines ==
    SelectSeq(SubSeq(Lines, Len(AppendHeader) + 1, Len(Lines)),
              LAMBDA l : l \in {LnItem, LnLink, LnBoth, LnBothItemFirst})

ExampleIndex ==
    <<"P", "h", "a", "s", "e", " ", "A">> :>
        (<<"R", "a", "n", "g", "e", "d">> :>
            (<<"W", "e", "a", "p", "o", "n", "s">> :>
                << <<"S", "w", "o", "r", "d">>, <<"B", "o", "w">> >>))

\* C9: N bullet lines under one phase, class and category give a list of
\* exactly N names, duplicates kept, in line order; the example text gives
\* the example Index.
C9_AppendOrder ==
    pc = "returned" =>
        IF wikitext = ExampleText
        THEN result = ExampleIndex
        ELSE result =
                <<"A">> :> (<<"R">> :> (<<"W">> :>
                    [i \in 1..Len(BulletLines) |-> ExpectedName(BulletLines[i])]))

\* three bullet lines were parsed into three entries, two of them equal
C9_Witness ==
    /\ pc = "returned"
    /\ wikitext # ExampleText
    /\ Len(BulletLines) = 3
    /\ Len(result[<<"A">>][<<"R">>][<<"W">>]) = 3
    /\ result[<<"A">>][<<"R">>][<<"W">>][1] = result[<<"A">>][<<"R">>][<<"W">>][3]

\* C10 as stated: the Index never holds an empty-string phase, class or
\* category key.
C10_NoEmptyKeyAsStated ==
    \A p \in DOMAIN result :
        /\ p # <<>>
        /\ \A c \in DOMAIN result[p] :
              /\ c # <<>>
              /\ \A k \in DOMAIN result[p][c] : k # <<>>


\* C11: whatever whitespace surrounds it, a line whose stripped form starts
\* with === is not treated as a phase heading (the phase cursor and the
\* phase keys stay, the class cursor is set), and a line whose stripped form
\* starts with == but not === is not treated as a class heading (the class
\* cursor is cleared, no class key is added, the phase cursor is set).
C11_DepthPrecedence ==
    [][Looping =>
         LET line == Strip(Head(rest))
             deep == StartsWith(line, <<"=", "=", "=">>)
             flat == StartsWith(line, <<"=", "=">>) /\ ~deep
         IN  /\ deep => /\ phase' = phase
                        /\ DOMAIN result' = DOMAIN result
                        /\ terraria_class' # None
             /\ flat => /\ terraria_class' = None
                        /\ phase' # None
                        /\ phase' \in DOMAIN result'
                        /\ \A p \in DOMAIN result : result'[p] = result[p]]_vars

\* headings written between whitespace, and one with four = signs, were
\* read: B is a phase, Q a class of B and R a class of A
C11_Witness ==
    /\ pc = "returned"
    /\ <<"B">> \in DOMAIN result
    /\ <<"Q">> \in DOMAIN result[<<"B">>]
    /\ \E i \in 1..Len(Lines) : Lines[i] = HdFour


\* C12: under an active phase, class and category, a bullet line that holds
\* both an {{item|NAME}} template and a [[NAME]] link, in either order, adds
\* the template's name (S, not the link's B) at the end of the active list,
\* and a bullet line that holds neither leaves the Index unchanged.
C12_ExtractionPriority ==
    [][(Looping /\ Truthy(phase) /\ Truthy(terraria_class) /\ Truthy(category))
         => /\ Head(rest) \in {LnBoth, LnBothItemFirst} =>
                  result' = [result EXCEPT
                               ![phase][terraria_class][category] =
                                   Append(@, <<"S">>)]
            /\ Head(rest) = LnNoName => result' = result]_vars

\* a text with the link before the template, the template before the link
\* and a bullet with neither was parsed
C12_Witness ==
    /\ pc = "returned"
    /\ SubSeq(Lines, Len(AppendHeader) + 1, Len(Lines))
           \in {<<LnBoth, LnNoName, LnBothItemFirst>>}
    /\ result[<<"A">>][<<"R">>][<<"W">>] = << <<"S">>, <<"S">> >>


\* the position in Lines of the line the loop reads next
LinePos == Len(Lines) - Len(rest) + 1

\* the last of the lines ls comes after a heading with no category line
\* between the two
HeadingPending(ls) ==
    \E j \in 1..(Len(ls) - 1) :
        /\ \/ IsPhaseHeading(Strip(ls[j]))
           \/ IsClassHeading(Strip(ls[j]))
        /\ \A m \in (j + 1)..(Len(ls) - 1) : ~IsCategory(Strip(ls[m]))

\* C14: a phase heading clears the class and the category cursor, a class
\* heading clears the category cursor, and a bullet that follows a heading
\* with no category line between them is appended to no list.
C14_CursorReset ==
    [][Looping =>
         LET line == Strip(Head(rest))
         IN  /\ IsPhaseHeading(line) =>
                    terraria_class' = None /\ category' = None
             /\ IsClassHeading(line) => category' = None
             /\ (IsBullet(line) /\ HeadingPending(SubSeq(Lines, 1, LinePos))) =>
                    result' = result]_vars

\* an item was recorded under A / R / W, then a heading came, and the item
\* line right after the heading was not recorded anywhere
C14_Witness ==
    /\ pc = "returned"
    /\ \E i \in (Len(AppendHeader) + 2)..(Len(Lines) - 1) :
          /\ Lines[i - 1] = LnItem
          /\ IsHeadingAt(i)
          /\ Lines[i + 1] = LnItem
    /\ \A p \in DOMAIN result : \A c \in DOMAIN result[p] :
          \A k \in DOMAIN result[p][c] :
              result[p][c][k] =
                  IF <<p, c, k>> = << <<"A">>, <<"R">>, <<"W">> >>
                  THEN << <<"S">> >> ELSE <<>>

\* every list of d is kept in e, under the same keys, as the beginning of
\* e's list
ListsExtended(d, e) ==
    \A p \in DOMAIN d :
        /\ p \in DOMAIN e
        /\ \A c \in DOMAIN d[p] :
              /\ c \in DOMAIN e[p]
              /\ \A k \in DOMAIN d[p][c] :
                    /\ k \in DOMAIN e[p][c]
                    /\ Len(d[p][c][k]) <= Len(e[p][c][k])
                    /\ SubSeq(e[p][c][k], 1, Len(d[p][c][k])) = d[p][c][k]

\* C15: a heading or a category line that names a key the Index already
\* holds at that level leaves the Index as it is, and no step of the parse
\* drops or reorders what a list holds: later items come after the earlier.
C15_RegisterIfAbsent ==
    [][/\ ListsExtended(result, result')
       /\ Looping =>
            LET line == Strip(Head(rest))
            IN  /\ (IsPhaseHeading(line) /\ phase' \in DOMAIN result) =>
                       result' = result
                /\ (/\ IsClassHeading(line)
                    /\ Truthy(phase)
                    /\ terraria_class' \in DOMAIN result[phase]) =>
                       result' = result
                /\ (/\ IsCategory(line)
                    /\ Truthy(phase) /\ Truthy(terraria_class)
                    /\ category' \in DOMAIN result[phase][terraria_class]) =>
                       result' = result]_vars

\* the class R and the category W were named again after a first item, and
\* the second item came after the first in the same list
C15_Witness ==
    /\ pc = "returned"
    /\ SubSeq(Lines, Len(AppendHeader) + 1, Len(Lines))
           = <<LnItem, LnClass, LnCategory, LnItem>>
    /\ result = <<"A">> :> (<<"R">> :> (<<"W">> :> << <<"S">>, <<"S">> >>))


----------------------------------------------------------------------------
(* Further properties of get_guide_data *)

\* this step is c's coroutine storing what it fetched and parsed
Stores(c) == co[c].pc = "fetched" /\ co'[c].pc = "returned"

\* C16: a call served from the cache returns the stored Index and leaves the
\* Index and the timestamp unchanged, and the stored Index changes only in
\* the step that ends a successful fetch and parse, which assigns the whole
\* parsed Index and the timestamp of the same call.
C16_CacheHitFrame ==
    [][/\ \A c \in Callers :
             (Begins(c) /\ co'[c].pc = "returned") =>
                 /\ co'[c].ret = GuideCache
                 /\ UNCHANGED <<GuideCache, GuideFetchedAt>>
       /\ GuideCache' # GuideCache =>
             \E c \in Callers :
                 /\ Stores(c)
                 /\ GuideCache' = parse_guide(co[c].text).result
                 /\ GuideFetchedAt' = co[c].now
                 /\ writer' = [cache |-> co[c].call, stamp |-> co[c].call]]_vars

\* a call that fetched nothing has returned the stored, non-empty Index
C16_Witness ==
    \E c \in Callers :
        /\ co[c].pc = "returned"
        /\ co[c].text = <<>>
        /\ co[c].ret = GuideCache
        /\ DOMAIN GuideCache # {}
        /\ writer.cache # co[c].call

\* C17 as stated: under every interleaving the stored timestamp never
\* decreases.
C17_TimestampMonotoneAsStated ==
    [][GuideFetchedAt' >= GuideFetchedAt]_vars

\* C18: no step of a call whose fetch fails, from its beginning to the
\* exception leaving it, changes the stored Index or timestamp, whatever is
\* stored; such a call stores nothing, and a call whose fetch succeeds
\* replaces the entry by its own Index and timestamp.
C18_FailedFetchFrame ==
    [][\A c \in Callers :
          /\ (/\ co'[c] # co[c]
              /\ co'[c].pc \in {"awaiting", "failed", "raised"}) =>
                 UNCHANGED <<GuideCache, GuideFetchedAt>>
          /\ co[c].pc = "failed" => co'[c].pc \in {"failed", "raised"}
          /\ Stores(c) =>
                 /\ GuideCache' = co'[c].ret
                 /\ GuideFetchedAt' = co[c].now]_vars

\* a call has failed while an entry that was fresh at the call's clock
\* reading is stored
C18_Witness ==
    \E c \in Callers :
        /\ co[c].pc = "raised"
        /\ Populated
        /\ DOMAIN GuideCache # {}
        /\ ~StaleFor(c)


----------------------------------------------------------------------------
(* Item names *)

\* no list of d holds an empty name
NamesNonEmpty(d) ==
    \A p \in DOMAIN d : \A c \in DOMAIN d[p] : \A k \in DOMAIN d[p][c] :
        \A i \in 1..Len(d[p][c][k]) : d[p][c][k][i] # <<>>

\* C19: no step of the parse leaves an empty item name in a list, and a
\* bullet whose template or link name is blank, hence empty once stripped,
\* leaves the Index unchanged.
C19_NoEmptyItemName ==
    [][/\ NamesNonEmpty(result')
       /\ (/\ Looping
           /\ Truthy(phase) /\ Truthy(terraria_class) /\ Truthy(category)
           /\ Head(rest) \in {LnBlankName, LnBlankLink}) =>
              result' = result]_vars

\* a blank template name, an item and a blank link name were parsed under
\* A / R / W: only the item is in the list
C19_Witness ==
    /\ pc = "returned"
    /\ SubSeq(Lines, Len(AppendHeader) + 1, Len(Lines))
           = <<LnBlankName, LnItem, LnBlankLink>>
    /\ result = <<"A">> :> (<<"R">> :> (<<"W">> :> << <<"S">> >>))

====
